---- MODULE Spec2Model ----
(***************************************************************************)
(* Tag versioning engine, effective tag resolver and rate limited          *)
(* classifier gateway of daksh_app (ai_tagging.py, neo4j_service.py).      *)
(*                                                                         *)
(* Graph store conventions used throughout (neomodel):                     *)
(*   - rel_manager.connect(node, props) is a MERGE on the relationship     *)
(*     with props in the pattern: an edge with exactly these properties    *)
(*     between the two nodes is reused, otherwise a new parallel edge is   *)
(*     created; nothing already stored is modified.                        *)
(*   - rel_manager.relationship(node) returns the first relationship       *)
(*     between the two nodes (MATCH ... RETURN r LIMIT 1, no ORDER BY):    *)
(*     with parallel edges, which one is returned is not specified.        *)
(*   - None valued properties of connect() are left out of the MERGE       *)
(*     pattern and assigned by ON CREATE SET / ON MATCH SET: an attempt    *)
(*     connected without a time matches every edge with its outcome        *)
(*     between the two nodes and clears their time.                        *)
(*   - a property name the relationship model does not define is dropped   *)
(*     by deflate().                                                       *)
(* Time is counted in ticks of 1/TicksPerSecond seconds; confidences in    *)
(* hundredths.                                                             *)
(***************************************************************************)
EXTENDS Integers, Sequences, FiniteSets, Bags, TLC

\* ---------------------------------------------------------------- bounds
MaxRuns == 2
MaxCalls == 6
MaxTime == 1300
MaxAttempts == 3
MaxUpdates == 3

\* ------------------------------------------------------ program constants
RATE_LIMIT == 5
RATE_WINDOW == 60
TicksPerSecond == 10
DefaultConf == 50
ClientConf == 100
MODEL_NAME == "gemini-2.5-flash"

Window == RATE_WINDOW * TicksPerSecond
Buffer == TicksPerSecond \div 10

QIds == {1, 2}
UnknownIds == {3}
Dims == {"topic", "skill", "difficulty"}
Limits == {1, 2}
Deltas == {0, 200, Window + 1}
Lags == {0, 1}
Callers == {"a", "b"}
Texts == {"t1", "t2"}
Absent == -1
NoCohort == "none"
NoTagNames == [topic |-> "", skill |-> "", difficulty |-> ""]

VARIABLES
    questions,          \* Question nodes: id -> [tagging_status, needs_ai_tagging]
    edges,              \* tag edges Question -> Concept / Skill / Difficulty
    nodes,              \* Concept / Skill / Difficulty nodes, keyed by name
    pc,                 \* position of the running tag_question call
    cur,                \* its in-memory Question object and arguments
    data,               \* parsed classifier answer
    new_version,        \* version computed by the run
    ret,                \* what the last finished call returned
    batch,              \* batch_tag_questions loop state
    runs,               \* tag_question calls that passed the short-circuit
    calls,              \* classifier calls made
    request_timestamps, \* the module level deque(maxlen=RATE_LIMIT)
    now,                \* wall clock
    completed,          \* timestamps recorded by check_rate_limit, in order
    rl,                 \* concurrent check_rate_limit callers
    qtext,              \* Question.text, by question id
    sent,               \* log of the requests handed to the classifier
    students,           \* Student nodes
    attempted,          \* ATTEMPTED edges Student -> Question
    includes,           \* INCLUDES edges Exam -> Question
    member_of,          \* MEMBER_OF edges Student -> Cohort
    mastery,            \* HAS_CONCEPT_MASTERY / HAS_SKILL_MASTERY edges
    aret,               \* what the last analytics call returned
    summaries,          \* StudentSummary nodes
    exists_ok,          \* the server accepts exists(e.exam_id) in a query
    tq                  \* concurrent tag_question runs on one question

vars == <<questions, edges, nodes, pc, cur, data, new_version, ret, batch,
          runs, calls, request_timestamps, now, completed, rl,
          qtext, sent, students, attempted, includes, member_of, mastery, aret,
          summaries, exists_ok, tq>>

graphVars == <<questions, edges, nodes>>
runVars == <<pc, cur, data, new_version>>
counters == <<runs, calls>>
limiterVars == <<request_timestamps, now, completed>>
anVars == <<qtext, students, attempted, includes, member_of, mastery, aret,
            summaries, exists_ok>>

\* ------------------------------------------------------------ classifier
\* A parsed answer: which keys the JSON object has, which of them hold a value
\* float() rejects, and the values.
Answer(has, nonnum, topic, parent, skill, difficulty, tc, sc, dc) ==
    [kind |-> "dict", has |-> has, nonnum |-> nonnum,
     topic |-> topic, parent_topic |-> parent, skill |-> skill,
     difficulty |-> difficulty, topic_confidence |-> tc,
     skill_confidence |-> sc, difficulty_confidence |-> dc]

AllKeys == {"topic", "parent_topic", "skill", "difficulty",
            "topic_confidence", "skill_confidence", "difficulty_confidence"}

RespA == Answer(AllKeys, {}, "Mechanics", "Physics", "Recall", "Easy", 90, 80, 70)
RespEmpty == Answer({}, {}, "", "", "", "", 0, 0, 0)
RespSentinel == Answer(AllKeys, {}, "Uncategorized", "Uncategorized", "Recall", "Easy", 5, 80, 70)
RespBadSkillConf == Answer(AllKeys, {"skill_confidence"}, "Mechanics", "Physics", "Recall", "Easy", 90, 0, 70)
RespList == [Answer({}, {}, "", "", "", "", 0, 0, 0) EXCEPT !.kind = "list"]
\* answers with a confidence outside 0.0 .. 1.0
RespOver == Answer(AllKeys, {}, "Mechanics", "Physics", "Recall", "Easy", 150, 80, 70)
RespNegative == Answer(AllKeys, {}, "Mechanics", "Physics", "Recall", "Easy", 90, -20, 70)
NoData == [Answer({}, {}, "", "", "", "", 0, 0, 0) EXCEPT !.kind = "none"]

\* json.loads succeeded
Parsed == {RespA, RespEmpty, RespSentinel, RespBadSkillConf, RespList}

\* data.get(key, default)
Get(d, key, default) == IF key \in d.has THEN d[key] ELSE default

\* float(value) raises
FloatRaises(d, key) == key \in d.has /\ key \in d.nonnum

\* ------------------------------------------------------------------ graph
\* "model_id: str = None"; tag_question passes no model_id to connect()
NoModelId == ""

Edge(q, dim, name, src, conf, ver) ==
    [q |-> q, dim |-> dim, name |-> name, tag_source |-> src,
     confidence |-> conf, version |-> ver, model_id |-> NoModelId]

EdgesOf(q, dim) == {e \in edges : e.q = q /\ e.dim = dim}

\* connect that updates the edge already linking the two nodes
ConnectReplace(E, e) ==
    {x \in E : ~(x.q = e.q /\ x.dim = e.dim /\ x.name = e.name)} \cup {e}

\* rel_manager.connect(node, properties)
Connect(E, e) == E \cup {e}

\* Model.nodes.first_or_none(name=...) or Model(name=...).save()
FirstOrCreate(N, dim, name) == N \cup {[dim |-> dim, name |-> name]}

\* What a loop "for node in rel_manager.all(): rel = rel_manager.relationship(node)"
\* can get to see of a set of edges E: for every linked node at least one of
\* the edges to it.
Seen(E) ==
    {S \in SUBSET E : \A e \in E : \E s \in S : s.name = e.name /\ s.dim = e.dim}

MaxOf(S) == IF S = {} THEN 0 ELSE CHOOSE m \in S : \A x \in S : x <= m

\* current_max_version over the relationships seen
CurrentMaxVersion(S) ==
    MaxOf({e.version : e \in {x \in S : x.tag_source = "ai_generated"}})

\* question.save()
Save(Q, c) ==
    [Q EXCEPT ![c.q] = [tagging_status |-> c.tagging_status,
                        needs_ai_tagging |-> c.needs_ai_tagging]]

NoCur == [q |-> 0, force |-> FALSE, tagging_status |-> "", needs_ai_tagging |-> FALSE]

NoTag == [name |-> "", tag_source |-> "none", confidence |-> 0, version |-> 0]
NoTags == [d \in Dims |-> NoTag]

Ret(op, q, outcome, success, ver) ==
    [op |-> op, q |-> q, outcome |-> outcome, success |-> success,
     version |-> ver, tags |-> NoTags, student_id |-> 0, time_spent |-> Absent]

NoRet == Ret("none", 0, "none", FALSE, 0)

NoBatch == [state |-> "idle", selected |-> {}, todo |-> {}, called |-> {},
            processed |-> 0, success |-> 0, failed |-> 0, errors |-> <<>>]

NoAret == [op |-> "none"]

\* no tag_question run of a concurrent caller is in progress
NoTq == [c \in Callers |-> [pc |-> "idle", new_version |-> 0, data |-> NoData, cur |-> NoCur]]

\* ------------------------------------------------------------ rate limiter
RECURSIVE Evict(_, _)
Evict(ts, t) ==
    IF ts # <<>> /\ t - Head(ts) > Window THEN Evict(Tail(ts), t) ELSE ts

\* deque(maxlen=RATE_LIMIT).append
DequeAppend(ts, x) ==
    IF Len(ts) >= RATE_LIMIT THEN Append(Tail(ts), x) ELSE Append(ts, x)

\* the wait without the 0.1 s buffer
WaitTimeNoBuffer(ts, t) == Window - (t - Head(ts))

WaitTime(ts, t) == Window - (t - Head(ts)) + Buffer

\* the instant at which check_rate_limit, entered at time t, records its call
RecordedAt(ts, t) ==
    IF Len(ts) >= RATE_LIMIT THEN t + WaitTime(ts, t) ELSE t

\* check_rate_limit() by a single caller, entered d ticks after the last clock
\* reading; the second time.time() reads lag ticks after the earliest instant
CheckRateLimit(d, lag) ==
    LET current_time == now + d
        ts == Evict(request_timestamps, current_time)
        at == RecordedAt(ts, current_time) + lag
    IN  /\ request_timestamps' = DequeAppend(ts, at)
        /\ now' = at
        /\ completed' = Append(completed, at)

NoRl == [c \in Callers |-> [pc |-> "idle", current_time |-> 0, wake |-> 0]]

\* ------------------------------------------------------------------- Init
Init ==
    /\ questions = << >>
    /\ edges = {}
    /\ nodes = {}
    /\ pc = "idle"
    /\ cur = NoCur
    /\ data = NoData
    /\ new_version = 0
    /\ ret = NoRet
    /\ batch = NoBatch
    /\ runs = 0
    /\ calls = 0
    /\ request_timestamps = << >>
    /\ now = 0
    /\ completed = << >>
    /\ rl = NoRl
    /\ qtext = [q \in QIds |-> "t1"]
    /\ sent = {}
    /\ students = {}
    /\ attempted = EmptyBag
    /\ includes = {}
    /\ member_of = {}
    /\ mastery = {}
    /\ aret = NoAret
    /\ summaries = {} /\ exists_ok = TRUE /\ tq = NoTq

\* the single sequential caller is between two calls
Idle == pc = "idle" /\ batch.state # "running"

\* -------------------------------------------------------------- ingestion
ClientTags == {[topic |-> "Mechanics", skill |-> "Recall", difficulty |-> "Easy"]}

\* _link_question_tags(question, concept_name, skill_name, difficulty_name)
LinkQuestionTags(E, q, t) ==
    Connect(Connect(Connect(E,
        Edge(q, "topic", t.topic, "client", ClientConf, 1)),
        Edge(q, "skill", t.skill, "client", ClientConf, 1)),
        Edge(q, "difficulty", t.difficulty, "client", ClientConf, 1))

\* create_question_if_not_exists with the three tag names given
CreateQuestionTagged(q, t) ==
    /\ Idle
    /\ questions' = (q :> [tagging_status |-> "tagged", needs_ai_tagging |-> FALSE])
                        @@ questions
    /\ edges' = LinkQuestionTags(edges, q, t)
    /\ nodes' = FirstOrCreate(FirstOrCreate(FirstOrCreate(nodes,
                    "topic", t.topic), "skill", t.skill), "difficulty", t.difficulty)
    /\ ret' = Ret("create_question_if_not_exists", q, "tagged", TRUE, 0)
    /\ batch' = NoBatch
    /\ UNCHANGED <<runVars, counters, limiterVars, rl, anVars, tq, sent>>

\* create_question_if_not_exists with a tag name missing
CreateQuestionUntagged(q) ==
    /\ Idle
    /\ questions' = (q :> [tagging_status |-> "untagged", needs_ai_tagging |-> TRUE])
                        @@ questions
    /\ ret' = Ret("create_question_if_not_exists", q, "flagged", TRUE, 0)
    /\ batch' = NoBatch
    /\ UNCHANGED <<edges, nodes, runVars, counters, limiterVars, rl, anVars, tq, sent>>

\* ------------------------------------------------------------ tag_question
\* the result reaches the caller: the batch loop, when one is running
BatchAfter(b, q, res) ==
    IF b.state # "running" THEN b
    ELSE IF res.outcome = "raised" THEN [b EXCEPT !.state = "aborted"]
    ELSE IF res.success THEN [b EXCEPT !.success = @ + 1]
    ELSE [b EXCEPT !.failed = @ + 1, !.errors = Append(@, q)]

Finish(b, res) ==
    /\ ret' = res
    /\ batch' = BatchAfter(b, res.q, res)
    /\ pc' = "idle"
    /\ cur' = NoCur
    /\ data' = NoData
    /\ new_version' = 0

\* a prompt that also quotes how often the question was attempted
PromptWithAttempts(q) ==
    <<"Question: ", qtext[q], BagCardinality(attempted)>>

\* the f-string of step 5: fixed instructions around question.text
Prompt(q) == <<"Question: ", qtext[q]>>

\* client.models.generate_content(model, contents, config)
Request(q) ==
    [model |-> MODEL_NAME, contents |-> Prompt(q),
     response_mime_type |-> "application/json", temperature |-> 30]

\* the log entry of one classifier call: the request, the text of the
\* question and the rest of the graph at the time of the call
Sent(q) ==
    [text |-> qtext[q], request |-> Request(q),
     graph |-> <<students, attempted, includes, member_of, mastery>>]

\* the short-circuit test with the force flag inverted
AlreadyTaggedInverted(q, force) ==
    force /\ questions[q].tagging_status = "tagged" /\ ~questions[q].needs_ai_tagging

\* the short-circuit test of step 2
AlreadyTagged(q, force) ==
    ~force /\ questions[q].tagging_status = "tagged" /\ ~questions[q].needs_ai_tagging

\* steps 1-3 of tag_question(q, force), called with batch state b
TagEnter(b, q, force) ==
    IF q \notin DOMAIN questions
    THEN /\ Finish(b, Ret("tag_question", q, "not_found", FALSE, 0))
         /\ UNCHANGED <<graphVars, counters, limiterVars, rl, anVars, tq, sent>>
    ELSE IF AlreadyTagged(q, force)
    THEN /\ Finish(b, Ret("tag_question", q, "already_tagged", TRUE, 0))
         /\ UNCHANGED <<graphVars, counters, limiterVars, rl, anVars, tq, sent>>
    ELSE /\ runs < MaxRuns
         /\ cur' = [q |-> q, force |-> force, tagging_status |-> "pending",
                    needs_ai_tagging |-> questions[q].needs_ai_tagging]
         /\ questions' = Save(questions, cur')
         /\ pc' = "rate_limit"
         /\ runs' = runs + 1
         /\ ret' = NoRet
         /\ batch' = b
         /\ UNCHANGED <<edges, nodes, data, new_version, calls, limiterVars, rl, anVars, tq, sent>>

TagQuestion(q, force) ==
    /\ Idle
    /\ TagEnter(NoBatch, q, force)

\* step 4 left out: the run goes on to the classifier without a slot
TagRateLimitSkipped ==
    /\ pc = "rate_limit"
    /\ pc' = "classify"
    /\ UNCHANGED <<graphVars, cur, data, new_version, ret, batch, counters,
                   limiterVars, rl, anVars, tq, sent>>

\* step 4. The tagging flow never reads the limiter's state, so its calls
\* arrive back to back here; arrival times and lags are explored by SpecRL
\* and SpecRLConc.
TagRateLimit ==
    /\ pc = "rate_limit"
    /\ CheckRateLimit(0, 0)
    /\ pc' = "classify"
    /\ UNCHANGED <<graphVars, cur, data, new_version, ret, batch, counters, rl, anVars, tq, sent>>

\* the except branch without the assignment of 'failed'
TagClassifyFailsNoStatus ==
    /\ pc = "classify"
    /\ calls' = calls + 1
    /\ questions' = Save(questions, cur)
    /\ sent' = sent \cup {Sent(cur.q)}
    /\ Finish(batch, Ret("tag_question", cur.q, "failed", FALSE, 0))
    /\ UNCHANGED <<edges, nodes, runs, limiterVars, rl, anVars, tq>>

\* step 5, the call raised or its text is not JSON
TagClassifyFails ==
    /\ pc = "classify"
    /\ calls' = calls + 1
    /\ questions' = Save(questions, [cur EXCEPT !.tagging_status = "failed"])
    /\ sent' = sent \cup {Sent(cur.q)}
    /\ Finish(batch, Ret("tag_question", cur.q, "failed", FALSE, 0))
    /\ UNCHANGED <<edges, nodes, runs, limiterVars, rl, anVars, tq>>

\* step 5, json.loads returned, and the three version loops
TagClassify(resp) ==
    /\ pc = "classify"
    /\ calls' = calls + 1
    /\ data' = resp
    /\ sent' = sent \cup {Sent(cur.q)}
    /\ \E S \in Seen({e \in edges : e.q = cur.q}) :
           new_version' = CurrentMaxVersion(S) + 1
    /\ pc' = "write"
    /\ UNCHANGED <<graphVars, cur, ret, batch, runs, limiterVars, rl, anVars, tq>>

\* step 6 as far as it gets: the dimensions written before an exception
\* leaves the function, all three when none does
Written(d) ==
    IF d.kind # "dict" \/ FloatRaises(d, "topic_confidence") THEN {}
    ELSE IF FloatRaises(d, "skill_confidence") THEN {"topic"}
    ELSE IF FloatRaises(d, "difficulty_confidence") THEN {"topic", "skill"}
    ELSE Dims

\* the vocabulary nodes step 6 resolves or creates before that point
Resolved(d) ==
    IF d.kind # "dict" THEN {}
    ELSE IF FloatRaises(d, "topic_confidence") THEN {"topic"}
    ELSE IF FloatRaises(d, "skill_confidence") THEN {"topic", "skill"}
    ELSE Dims

DefaultName(dim) ==
    IF dim = "topic" THEN "Uncategorized"
    ELSE IF dim = "skill" THEN "Application" ELSE "Medium"

ConfKey(dim) ==
    IF dim = "topic" THEN "topic_confidence"
    ELSE IF dim = "skill" THEN "skill_confidence" ELSE "difficulty_confidence"

\* the edge step 6 connects in one dimension
NewEdge(q, d, dim, ver) ==
    Edge(q, dim, Get(d, dim, DefaultName(dim)), "ai_generated",
         Get(d, ConfKey(dim), DefaultConf), ver)

RECURSIVE ConnectAll(_, _)
ConnectAll(E, new) ==
    IF new = {} THEN E
    ELSE LET e == CHOOSE x \in new : TRUE IN ConnectAll(Connect(E, e), new \ {e})

\* steps 6 and 7 with the flag left as it was when 'tagged' is saved
TagWriteKeepsFlag ==
    /\ pc = "write"
    /\ edges' = ConnectAll(edges, {NewEdge(cur.q, data, dim, new_version) : dim \in Written(data)})
    /\ nodes' = nodes \cup {[dim |-> dim, name |-> Get(data, dim, DefaultName(dim))] :
                                dim \in Resolved(data)}
    /\ IF Written(data) = Dims
       THEN /\ questions' = Save(questions, [cur EXCEPT !.tagging_status = "tagged"])
            /\ Finish(batch, Ret("tag_question", cur.q, "tagged", TRUE, new_version))
       ELSE /\ questions' = questions
            /\ Finish(batch, Ret("tag_question", cur.q, "raised", FALSE, 0))
    /\ UNCHANGED <<counters, limiterVars, rl, anVars, tq, sent>>

\* steps 6 and 7
TagWrite ==
    /\ pc = "write"
    /\ edges' = ConnectAll(edges, {NewEdge(cur.q, data, dim, new_version) : dim \in Written(data)})
    /\ nodes' = nodes \cup {[dim |-> dim, name |-> Get(data, dim, DefaultName(dim))] :
                                dim \in Resolved(data)}
    /\ IF Written(data) = Dims
       THEN /\ questions' = Save(questions, [cur EXCEPT !.needs_ai_tagging = FALSE,
                                                        !.tagging_status = "tagged"])
            /\ Finish(batch, Ret("tag_question", cur.q, "tagged", TRUE, new_version))
       ELSE /\ questions' = questions
            /\ Finish(batch, Ret("tag_question", cur.q, "raised", FALSE, 0))
    /\ UNCHANGED <<counters, limiterVars, rl, anVars, tq, sent>>

\* ------------------------------------------------------ batch_tag_questions
MinOf(a, b) == IF a < b THEN a ELSE b

Flagged == {q \in DOMAIN questions : questions[q].needs_ai_tagging}

\* a selection that leaves out the flagged questions whose run failed
BatchStartUntaggedOnly(limit) ==
    /\ Idle
    /\ LET fresh == {q \in Flagged : questions[q].tagging_status = "untagged"}
       IN  \E sel \in SUBSET fresh :
              /\ Cardinality(sel) = MinOf(limit, Cardinality(fresh))
              /\ batch' = [NoBatch EXCEPT !.state = "running", !.selected = sel,
                                          !.todo = sel]
    /\ ret' = NoRet
    /\ UNCHANGED <<graphVars, runVars, counters, limiterVars, rl, anVars, tq, sent>>

\* Question.nodes.filter(needs_ai_tagging=True)[:limit]
BatchStart(limit) ==
    /\ Idle
    /\ \E sel \in SUBSET Flagged :
          /\ Cardinality(sel) = MinOf(limit, Cardinality(Flagged))
          /\ batch' = [NoBatch EXCEPT !.state = "running", !.selected = sel,
                                      !.todo = sel]
    /\ ret' = NoRet
    /\ UNCHANGED <<graphVars, runVars, counters, limiterVars, rl, anVars, tq, sent>>

\* one iteration of the loop, up to the call of tag_question
BatchNext ==
    /\ pc = "idle" /\ batch.state = "running"
    /\ \E q \in batch.todo :
          TagEnter([batch EXCEPT !.processed = @ + 1,
                                 !.called = @ \cup {q},
                                 !.todo = @ \ {q}], q, FALSE)

BatchReturn ==
    /\ pc = "idle" /\ batch.state = "running" /\ batch.todo = {}
    /\ batch' = [batch EXCEPT !.state = "returned"]
    /\ ret' = Ret("batch_tag_questions", 0, "returned", TRUE, 0)
    /\ UNCHANGED <<graphVars, runVars, counters, limiterVars, rl, anVars, tq, sent>>

\* ------------------------------------------------------- get_effective_tags
TagOf(e) ==
    [name |-> e.name, tag_source |-> e.tag_source, confidence |-> e.confidence,
     version |-> IF e.tag_source = "client" THEN 0 ELSE e.version]

\* get_best_tag over the relationships S its loop sees: the possible results
GetBestTag(S) ==
    LET client == {e \in S : e.tag_source = "client"}
        ai == {e \in S : e.tag_source = "ai_generated"}
        best == {e \in ai : \A x \in ai : x.version <= e.version}
    IN  IF client # {} THEN {TagOf(e) : e \in client}
        ELSE IF best # {} THEN {TagOf(e) : e \in best}
        ELSE {NoTag}

\* the possible results of get_best_tag(rel_manager) for one dimension
BestTags(q, dim) == UNION {GetBestTag(S) : S \in Seen(EdgesOf(q, dim))}

GetEffectiveTags(q) ==
    /\ Idle
    /\ IF q \notin DOMAIN questions
       THEN ret' = Ret("get_effective_tags", q, "not_found", FALSE, 0)
       ELSE \E tt \in BestTags(q, "topic"), ts \in BestTags(q, "skill"),
               td \in BestTags(q, "difficulty") :
               ret' = [Ret("get_effective_tags", q, "ok", TRUE, 0) EXCEPT
                          !.tags = [d \in Dims |-> IF d = "topic" THEN tt
                                                   ELSE IF d = "skill" THEN ts ELSE td]]
    /\ batch' = NoBatch
    /\ UNCHANGED <<graphVars, runVars, counters, limiterVars, rl, anVars, tq, sent>>

\* ------------------------------------------------------------ attempt edges
\* the ATTEMPTED edges of the graph are a bag of these records
Attempt(s, q, outcome, time) ==
    [s |-> s, q |-> q, outcome |-> outcome, time_spent_seconds |-> time]

RECURSIVE SumOver(_, _)
SumOver(S, f) ==
    IF S = {} THEN 0
    ELSE LET x == CHOOSE y \in S : TRUE IN f[x] + SumOver(S \ {x}, f)

\* the attempt edges that satisfy P, and how many they are (COUNT(a))
AttemptsWhere(P(_)) == {a \in BagToSet(attempted) : P(a)}
CountWhere(P(_)) == SumOver(AttemptsWhere(P), attempted)

\* student.attempted.connect(question, {'outcome': .., 'time_spent_seconds': ..})
ConnectAttempt(A, k) ==
    LET M == {a \in BagToSet(A) : /\ a.s = k.s /\ a.q = k.q
                                  /\ a.outcome = k.outcome
                                  /\ k.time_spent_seconds \in {Absent, a.time_spent_seconds}}
    IN  IF M = {} THEN A (+) SetToBag({k})
        ELSE IF k.time_spent_seconds # Absent THEN A
        ELSE [a \in (BagToSet(A) \ M) \cup {k} |->
                 IF a = k THEN SumOver(M, A) ELSE A[a]]

\* the exam of a question. global_question_id = exam_id * 1000 + question_id:
\* question q of the model stands for a question of exam q
ExamOf(q) == q

\* IngestAttemptView.post: student (and cohort), exam, question with or
\* without the three tag names, link to the exam, attempt. The outcome is
\* the one the view derives from selected_option and correct_option.
IngestAttempt(s, c, q, t, outcome, time) ==
    /\ Idle
    /\ BagCardinality(attempted) < MaxAttempts
    /\ students' = students \cup {s}
    /\ member_of' = IF c = NoCohort THEN member_of ELSE member_of \cup {<<s, c>>}
    /\ IF t \in ClientTags
       THEN /\ questions' = (q :> [tagging_status |-> "tagged",
                                  needs_ai_tagging |-> FALSE]) @@ questions
            /\ edges' = LinkQuestionTags(edges, q, t)
            /\ nodes' = FirstOrCreate(FirstOrCreate(FirstOrCreate(nodes,
                    "topic", t.topic), "skill", t.skill), "difficulty", t.difficulty)
       ELSE /\ questions' = (q :> [tagging_status |-> "untagged",
                                  needs_ai_tagging |-> TRUE]) @@ questions
            /\ UNCHANGED <<edges, nodes>>
    /\ includes' = includes \cup {<<ExamOf(q), q>>}
    /\ attempted' = ConnectAttempt(attempted, Attempt(s, q, outcome, time))
    /\ ret' = [Ret("ingest_attempt", q, outcome, TRUE, 0) EXCEPT
                  !.student_id = s, !.time_spent = time]
    /\ batch' = NoBatch
    /\ UNCHANGED <<runVars, counters, limiterVars, rl, qtext, sent, summaries, exists_ok, tq, mastery, aret>>

\* feed_data, a student report with one attempt on a question fed before:
\* the student joins cohort ABC; the edge is connected only when the student
\* has no edge to the question yet; 'selected_option' and 'time_spent' are
\* not properties of the attempt edge and are dropped
FeedAttempt(s, q, outcome, time) ==
    /\ Idle
    /\ BagCardinality(attempted) < MaxAttempts
    /\ q \in DOMAIN questions
    /\ students' = students \cup {s}
    /\ member_of' = member_of \cup {<<s, "ABC">>}
    /\ AttemptsWhere(LAMBDA a : a.s = s /\ a.q = q) = {}
    /\ attempted' = ConnectAttempt(attempted, Attempt(s, q, outcome, Absent))
    /\ ret' = [Ret("feed_data", q, outcome, TRUE, 0) EXCEPT
                  !.student_id = s, !.time_spent = time]
    /\ batch' = NoBatch
    /\ UNCHANGED <<graphVars, runVars, counters, limiterVars, rl, qtext, sent, summaries, exists_ok, tq,
                   includes, mastery, aret>>

\* ------------------------------------------------------------------- Spec
Next ==
    \/ \E q \in QIds, t \in ClientTags : CreateQuestionTagged(q, t)
    \/ \E q \in QIds : CreateQuestionUntagged(q)
    \/ \E q \in QIds \cup UnknownIds, force \in BOOLEAN : TagQuestion(q, force)
    \/ TagRateLimit
    \/ TagClassifyFails
    \/ \E resp \in Parsed : TagClassify(resp)
    \/ TagWrite
    \/ \E limit \in Limits : BatchStart(limit)
    \/ BatchNext
    \/ BatchReturn
    \/ \E q \in QIds \cup UnknownIds : GetEffectiveTags(q)

Spec == Init /\ [][Next]_vars

\* --------------------------------------------------------------- numbers
\* Python floats and Cypher toFloat() quotients are kept as exact fractions
\* <<numerator, denominator>> in lowest terms, denominator positive.
Abs(x) == IF x < 0 THEN -x ELSE x

RECURSIVE GCD(_, _)
GCD(a, b) == IF b = 0 THEN a ELSE GCD(b, a % b)

Frac(n, d) ==
    LET g == GCD(Abs(n), d)
    IN  IF n >= 0 THEN <<n \div g, d \div g>> ELSE <<-(Abs(n) \div g), d \div g>>

Zero == <<0, 1>>
One == <<1, 1>>
Less(a, b) == a[1] * b[2] < b[1] * a[2]
Neg(a) == <<-a[1], a[2]>>

\* the elements of a set of integers in ascending order (ORDER BY)
RECURSIVE Ascending(_)
Ascending(S) ==
    IF S = {} THEN << >>
    ELSE LET m == CHOOSE x \in S : \A y \in S : x <= y
         IN  <<m>> \o Ascending(S \ {m})

\* sum of f[1] .. f[n]
RECURSIVE SumTo(_, _)
SumTo(f, n) == IF n = 0 THEN 0 ELSE f[n] + SumTo(f, n - 1)

\* product of f[1] .. f[n]
RECURSIVE ProdTo(_, _)
ProdTo(f, n) == IF n = 0 THEN 1 ELSE f[n] * ProdTo(f, n - 1)

\* ---------------------------------------------------------- analyze_student
\* the value of "(correct / total) if total else 0.0"
\* the ratio with 1.0 for an empty total
RatioOrOne(c, t) == IF t = 0 THEN One ELSE Frac(c, t)

RatioOrZero(c, t) == IF t = 0 THEN Zero ELSE Frac(c, t)

\* the questions a student has an attempt edge to
AttemptedBy(s) == {a.q : a \in AttemptsWhere(LAMBDA a : a.s = s)}

\* what "rel = student.attempted.relationship(q)" can return for each question
\* listed by student.attempted.all(): one of the edges to that question
RECURSIVE PicksOver(_, _)
PicksOver(s, qs) ==
    IF qs = {} THEN {<< >>}
    ELSE LET q == CHOOSE x \in qs : TRUE
         IN  {(q :> e) @@ f : e \in AttemptsWhere(LAMBDA a : a.s = s /\ a.q = q),
                              f \in PicksOver(s, qs \ {q})}

Picks(s) == PicksOver(s, AttemptedBy(s))

\* student.attempted.all() lists a question once per edge to it
Listed(s, q) == CountWhere(LAMBDA a : a.s = s /\ a.q = q)

\* the exams with a row in the per-exam queries of student s
ExamsOf(s) == {i[1] : i \in {j \in includes : j[2] \in AttemptedBy(s)}}

\* one row of a per-exam query: COUNT(a) and the correct ones among them
ExamRow(s, e) ==
    LET total == CountWhere(LAMBDA a : a.s = s /\ <<e, a.q>> \in includes)
        correct == CountWhere(LAMBDA a : /\ a.s = s /\ <<e, a.q>> \in includes
                                         /\ a.outcome = "correct")
    IN  [exam_id |-> e, correct |-> correct, total |-> total,
         accuracy |-> RatioOrZero(correct, total)]

\* the rows, ORDER BY exam_id
ExamRows(s) ==
    LET ids == Ascending(ExamsOf(s))
    IN  [i \in 1..Len(ids) |-> ExamRow(s, ids[i])]

\* names of the concepts (dim = "topic") or skills a question is linked to,
\* one row per edge
TagRows(q, dim) == {e \in edges : e.q = q /\ e.dim = dim}

\* the dict analyze_student returns for an existing student, when
\* relationship() returned pick[q] for question q
Metrics(s, pick, query_ok) ==
    LET qs == AttemptedBy(s)
        total_attempts == SumOver(qs, [q \in qs |-> Listed(s, q)])
        correct_attempts ==
            SumOver({q \in qs : pick[q].outcome = "correct"},
                    [q \in qs |-> Listed(s, q)])
        wrong == {q \in qs : pick[q].outcome # "correct"}
        names == {e.name : e \in UNION {TagRows(q, "topic") : q \in wrong}}
        incorrect_by_concept ==
            [n \in names |->
                SumOver(wrong, [q \in wrong |->
                    Listed(s, q) * Cardinality({e \in TagRows(q, "topic") : e.name = n})])]
        rows == IF query_ok THEN ExamRows(s) ELSE << >>
        exams_participated == Len(rows)
    IN  [op |-> "analyze_student", student_id |-> s, error |-> "",
         total_attempts |-> total_attempts,
         correct_attempts |-> correct_attempts,
         avg_accuracy |-> RatioOrZero(correct_attempts, total_attempts),
         exams_participated |-> exams_participated,
         per_exam_accuracy |->
             [i \in 1..Len(rows) |-> <<rows[i].exam_id, rows[i].accuracy>>],
         repeated_mistakes |->
             Cardinality({n \in names : incorrect_by_concept[n] > 1}),
         attempt_density |->
             RatioOrZero(total_attempts, exams_participated)]

StudentNotFound(s) ==
    [op |-> "analyze_student", student_id |-> s, error |-> "student_not_found"]

\* analyze_student(student_id); query_ok: the server accepts per_exam_query
AnalyzeStudent(s, query_ok) ==
    /\ Idle
    /\ IF s \notin students
       THEN aret' = StudentNotFound(s)
       ELSE \E pick \in Picks(s) : aret' = Metrics(s, pick, query_ok)
    /\ UNCHANGED <<graphVars, runVars, ret, batch, counters, limiterVars, rl,
                   qtext, sent, summaries, exists_ok, tq, students, attempted, includes, member_of, mastery>>

\* ----------------------------------------------------- run_student_analysis
\* the y values of the points over a common denominator: ys[i] / CommonDen
CommonDen(points) == ProdTo([i \in 1..Len(points) |-> points[i][2][2]], Len(points))
Scaled(points) ==
    [i \in 1..Len(points) |-> points[i][2][1] * (CommonDen(points) \div points[i][2][2])]

\* the slope with the factor n left out of both terms
SlopeFromPointsNoN(points) ==
    LET n == Len(points)
        xs == [i \in 1..n |-> points[i][1]]
        ys == Scaled(points)
        sum_x == SumTo(xs, n)
        sum_y == SumTo(ys, n)
        sum_xx == SumTo([i \in 1..n |-> xs[i] * xs[i]], n)
        sum_xy == SumTo([i \in 1..n |-> xs[i] * ys[i]], n)
        denom == sum_xx - sum_x * sum_x
    IN  IF n < 2 \/ denom <= 0 THEN Zero
        ELSE Frac(sum_xy - sum_x * sum_y, CommonDen(points) * denom)

\* _slope_from_points(points), points a list of (x, y)
SlopeFromPoints(points) ==
    LET n == Len(points)
        xs == [i \in 1..n |-> points[i][1]]
        ys == Scaled(points)
        sum_x == SumTo(xs, n)
        sum_y == SumTo(ys, n)
        sum_xx == SumTo([i \in 1..n |-> xs[i] * xs[i]], n)
        sum_xy == SumTo([i \in 1..n |-> xs[i] * ys[i]], n)
        denom == n * sum_xx - sum_x * sum_x
    IN  IF n < 2 THEN Zero
        ELSE IF denom = 0 THEN Zero
        ELSE Frac(n * sum_xy - sum_x * sum_y, CommonDen(points) * denom)

SlopeBand == <<1, 100>>

Trend(slope) ==
    IF Less(SlopeBand, slope) THEN "Improving"
    ELSE IF Less(slope, Neg(SlopeBand)) THEN "Declining"
    ELSE "Volatile"

\* the groups of the weakness and skill queries: per name, the attempts of s
\* on questions linked to it, one row per attempt edge and tag edge
TagNames(s, dim) == {e.name : e \in UNION {TagRows(q, dim) : q \in AttemptedBy(s)}}

GroupCount(s, dim, name, outcomes) ==
    LET as == AttemptsWhere(LAMBDA a : a.s = s /\ a.outcome \in outcomes)
    IN  SumOver(as, [a \in as |->
            attempted[a] * Cardinality({e \in TagRows(a.q, dim) : e.name = name})])

Outcomes == {"correct", "incorrect", "skipped"}

Group(s, dim, name) ==
    [name |-> name,
     incorrect |-> GroupCount(s, dim, name, {"incorrect"}),
     correct |-> GroupCount(s, dim, name, {"correct"}),
     total |-> GroupCount(s, dim, name, Outcomes)]

Half == <<1, 2>>
SkillBand == <<3, 5>>

\* WHERE incorrect > 3 AND (toFloat(correct)/total) < 0.5
Weaknesses(s) ==
    {g \in {Group(s, "topic", n) : n \in TagNames(s, "topic")} :
        g.incorrect > 3 /\ Less(Frac(g.correct, g.total), Half)}

\* WHERE total > 0, then "if acc < 0.6"
SkillsLow(s) ==
    {g \in {Group(s, "skill", n) : n \in TagNames(s, "skill")} :
        g.total > 0 /\ Less(Frac(g.correct, g.total), SkillBand)}

MasteryEdge(s, kind, name, score, risk) ==
    [s |-> s, kind |-> kind, name |-> name, mastery_score |-> score, risk_level |-> risk]

\* MERGE (s)-[r:HAS_..._MASTERY]->(c) SET r.mastery_score = .., r.risk_level = ..
Upsert(M, e) ==
    {m \in M : ~(m.s = e.s /\ m.kind = e.kind /\ m.name = e.name)} \cup {e}

\* the edges one run writes back
WriteBack(s) ==
    {MasteryEdge(s, "concept", g.name, RatioOrZero(g.correct, g.total), "High") :
        g \in Weaknesses(s)}
    \cup
    {MasteryEdge(s, "skill", g.name, Frac(g.correct, g.total),
                 IF Less(Frac(g.correct, g.total), Half) THEN "High" ELSE "Medium") :
        g \in SkillsLow(s)}

RECURSIVE UpsertAll(_, _, _)
UpsertAll(M, s, new) ==
    IF new = {} THEN M
    ELSE LET e == CHOOSE x \in new : TRUE IN UpsertAll(Upsert(M, e), s, new \ {e})

\* run_student_analysis(student_id)
RunStudentAnalysis(s) ==
    /\ Idle
    /\ LET rows == ExamRows(s)
           points == [i \in 1..Len(rows) |-> <<i - 1, rows[i].accuracy>>]
           slope == SlopeFromPoints(points)
           attempts == CountWhere(LAMBDA a : a.s = s /\ \E i \in includes : i[2] = a.q)
           exams_count == Cardinality(ExamsOf(s))
       IN  aret' = [op |-> "run_student_analysis", student_id |-> s,
                    trend |-> Trend(slope), trend_slope |-> slope,
                    exams |-> rows,
                    weaknesses |-> Weaknesses(s),
                    skill_gaps |-> SkillsLow(s),
                    attempts |-> attempts,
                    exams_count |-> exams_count,
                    attempt_density |->
                        IF exams_count # 0 THEN Frac(attempts, exams_count)
                        ELSE Frac(attempts, 1)]
    /\ mastery' = UpsertAll(mastery, s, WriteBack(s))
    /\ UNCHANGED <<graphVars, runVars, ret, batch, counters, limiterVars, rl,
                   qtext, sent, summaries, exists_ok, tq, students, attempted, includes, member_of>>

\* --------------------------------------------- get_student_performance_summary
None == << >>
Some(v) == <<v>>

\* round(x, 2), in hundredths
Round2(x) == (2 * 100 * x[1] + x[2]) \div (2 * x[2])

\* "round(avg_time, 2) if avg_time else None": None and 0.0 are both falsy
AvgTimeSeconds(avg_time) ==
    IF avg_time # None /\ avg_time[1] # Zero THEN Some(Round2(avg_time[1])) ELSE None

\* get_student_performance_summary(student_id), get_student_attempts inlined
GetStudentPerformanceSummary(s) ==
    /\ Idle
    /\ IF s \notin students
       THEN aret' = [op |-> "get_student_performance_summary", student_id |-> s,
                     error |-> "not found"]
       ELSE \E pick \in Picks(s) :
            LET qs == AttemptedBy(s)
                n == [q \in qs |-> Listed(s, q)]
                total == SumOver(qs, n)
                correct == SumOver({q \in qs : pick[q].outcome = "correct"}, n)
                timed == {q \in qs : pick[q].time_spent_seconds # Absent}
                n_timed == SumOver(timed, n)
                time_sum == SumOver(timed, [q \in qs |-> n[q] * pick[q].time_spent_seconds])
                avg_time == IF n_timed # 0 THEN Some(Frac(time_sum, n_timed)) ELSE None
            IN  IF total = 0
                THEN aret' = [op |-> "get_student_performance_summary", student_id |-> s,
                              error |-> "", total_attempts |-> 0, accuracy |-> 0,
                              avg_time_seconds |-> None, time_data_available |-> FALSE,
                              attempts |-> EmptyBag]
                ELSE aret' = [op |-> "get_student_performance_summary", student_id |-> s,
                              error |-> "", total_attempts |-> total,
                              accuracy |-> Round2(Frac(100 * correct, total)),
                              avg_time_seconds |-> AvgTimeSeconds(avg_time),
                              time_data_available |-> n_timed > 0,
                              attempts |-> [a \in {pick[q] : q \in qs} |-> n[a.q]]]
    /\ UNCHANGED <<graphVars, runVars, ret, batch, counters, limiterVars, rl,
                   qtext, sent, summaries, exists_ok, tq, students, attempted, includes, member_of, mastery>>

\* -------------------------------------------------------- run_cohort_analysis
Members(c) == {m[1] : m \in {x \in member_of : x[2] = c}}

\* the (sid, concept, correct, total) rows of q_concept
ConceptRows(c) ==
    {[sid |-> sid, concept |-> n,
      correct |-> GroupCount(sid, "topic", n, {"correct"}),
      total |-> GroupCount(sid, "topic", n, Outcomes)] :
        sid \in Members(c), n \in UNION {TagNames(m, "topic") : m \in Members(c)}}

\* per_concept[concept]: the (sid, acc) entries
Entries(c, concept) ==
    {[sid |-> r.sid, acc |-> IF r.total = 0 THEN One ELSE Frac(r.correct, r.total)] :
        r \in {x \in ConceptRows(c) : x.concept = concept /\ x.total > 0}}

AlertBand == <<2, 5>>

\* the alert test with "at least 40%"
AlertsAtLeast(c) ==
    {[concept |-> n,
      failing_count |-> Cardinality({e \in Entries(c, n) : Less(e.acc, Half)}),
      student_count |-> Cardinality(Entries(c, n))] :
        n \in {x \in UNION {TagNames(m, "topic") : m \in Members(c)} :
                  /\ Entries(c, x) # {}
                  /\ ~Less(Frac(Cardinality({e \in Entries(c, x) : Less(e.acc, Half)}),
                                 Cardinality(Entries(c, x))), AlertBand)}}

\* "if student_count and failing_ratio > 0.4"
Alerts(c) ==
    {[concept |-> n,
      failing_count |-> Cardinality({e \in Entries(c, n) : Less(e.acc, Half)}),
      student_count |-> Cardinality(Entries(c, n))] :
        n \in {x \in UNION {TagNames(m, "topic") : m \in Members(c)} :
                  /\ Entries(c, x) # {}
                  /\ Less(AlertBand,
                          Frac(Cardinality({e \in Entries(c, x) : Less(e.acc, Half)}),
                               Cardinality(Entries(c, x))))}}

min_attempts == 5
TopBand == <<4, 5>>

Total(s) == CountWhere(LAMBDA a : a.s = s)
Accuracy(s) ==
    RatioOrZero(CountWhere(LAMBDA a : a.s = s /\ a.outcome = "correct"), Total(s))

\* the rows of q_students_acc: WHERE total > $min_attempts
Ranked(c) == {sid \in Members(c) : Total(sid) > min_attempts}

\* run_cohort_analysis(cohort_name)
RunCohortAnalysis(c) ==
    /\ Idle
    /\ IF Members(c) = {}
       THEN aret' = [op |-> "run_cohort_analysis", cohort |-> c, cohort_size |-> 0,
                     cohort_accuracy |-> Zero, alerts |-> {},
                     leaderboard |-> [top_performers |-> {}, stable |-> {}, at_risk |-> {}]]
       ELSE aret' = [op |-> "run_cohort_analysis", cohort |-> c,
                     cohort_size |-> Cardinality(Members(c)),
                     cohort_accuracy |->
                         RatioOrZero(CountWhere(LAMBDA a : a.s \in Members(c)
                                                          /\ a.outcome = "correct"),
                                     CountWhere(LAMBDA a : a.s \in Members(c))),
                     alerts |-> Alerts(c),
                     leaderboard |->
                         [top_performers |-> {m \in Ranked(c) : Less(TopBand, Accuracy(m))},
                          stable |-> {m \in Ranked(c) : /\ ~Less(TopBand, Accuracy(m))
                                                        /\ ~Less(Accuracy(m), Half)},
                          at_risk |-> {m \in Ranked(c) : Less(Accuracy(m), Half)}]]
    /\ UNCHANGED <<graphVars, runVars, ret, batch, counters, limiterVars, rl,
                   qtext, sent, summaries, exists_ok, tq, students, attempted, includes, member_of, mastery>>

\* ------------------------------------------------ analytics over a fed graph
\* the tag names the ingested questions came with
AnTags(q) ==
    IF q = 1 THEN [topic |-> "Mechanics", skill |-> "Recall", difficulty |-> "Easy"]
    ELSE IF q = 2 THEN [topic |-> "Optics", skill |-> "Application", difficulty |-> "Hard"]
    ELSE [topic |-> "Mechanics", skill |-> "Application", difficulty |-> "Medium"]

\* c correct and w incorrect attempts of s on q, with times 1, 2, ..
ProfileBag(s, q, c, w) ==
    SetToBag({Attempt(s, q, "correct", t) : t \in 1..c}
             \cup {Attempt(s, q, "incorrect", t) : t \in 1..w})

RECURSIVE SumBags(_)
SumBags(Bs) ==
    IF Bs = {} THEN EmptyBag
    ELSE LET b == CHOOSE x \in Bs : TRUE IN b (+) SumBags(Bs \ {b})

\* the graph after the questions qs were ingested with their tag names and
\* linked to their exams, for students studs with the attempts att
Fed(qs, studs, members, att) ==
    /\ questions = [q \in qs |-> [tagging_status |-> "tagged", needs_ai_tagging |-> FALSE]]
    /\ edges = UNION {LinkQuestionTags({}, q, AnTags(q)) : q \in qs}
    /\ nodes = UNION {{[dim |-> d, name |-> AnTags(q)[d]] : d \in Dims} : q \in qs}
    /\ pc = "idle" /\ cur = NoCur /\ data = NoData /\ new_version = 0
    /\ ret = NoRet /\ batch = NoBatch /\ runs = 0 /\ calls = 0
    /\ request_timestamps = << >> /\ now = 0 /\ completed = << >> /\ rl = NoRl
    /\ qtext = [q \in QIds |-> "t1"]
    /\ sent = {}
    /\ students = studs
    /\ attempted = att
    /\ includes = {<<ExamOf(q), q>> : q \in qs}
    /\ member_of = members
    /\ mastery = {}
    /\ aret = NoAret
    /\ summaries = {} /\ tq = NoTq

\* ---- one student over three exams
ExamProfiles == {<<0, 0>>, <<1, 0>>, <<0, 1>>, <<1, 1>>, <<2, 3>>, <<4, 1>>}
UnknownStudents == {0}

InitTrend ==
    \E p \in [{1, 2, 3} -> ExamProfiles] :
        Fed({1, 2, 3}, {1, 2}, {},
            SumBags({ProfileBag(1, q, p[q][1], p[q][2]) : q \in {1, 2, 3}}))
    /\ exists_ok = TRUE

NextTrend ==
    \/ \E s \in {1, 2} \cup UnknownStudents, query_ok \in BOOLEAN : AnalyzeStudent(s, query_ok)
    \/ \E s \in {1, 2} : RunStudentAnalysis(s)

SpecTrend == InitTrend /\ [][NextTrend]_vars

\* ---- attempts arriving between analyses
NextMastery ==
    \/ \E outcome \in {"correct", "incorrect"}, time \in {Absent, 0, 30} :
            IngestAttempt(1, NoCohort, 1, AnTags(1), outcome, time)
    \/ \E outcome \in {"correct", "incorrect"}, time \in {Absent, 30} :
            FeedAttempt(2, 1, outcome, time)
    \/ RunStudentAnalysis(1)
    \/ \E s \in {1, 2} \cup UnknownStudents : GetStudentPerformanceSummary(s)

SpecMastery == Init /\ [][NextMastery]_vars

\* ---- a cohort
CohortSize == 5
MemberProfiles ==
    <<[q |-> 1, c |-> 0, w |-> 0], [q |-> 1, c |-> 1, w |-> 0], [q |-> 1, c |-> 0, w |-> 1],
      [q |-> 2, c |-> 0, w |-> 1], [q |-> 1, c |-> 4, w |-> 1], [q |-> 1, c |-> 5, w |-> 0],
      [q |-> 1, c |-> 5, w |-> 1], [q |-> 1, c |-> 3, w |-> 3], [q |-> 1, c |-> 2, w |-> 4]>>

\* members are interchangeable: profiles are handed out in ascending order
InitCohort ==
    \E i \in [1..CohortSize -> 1..Len(MemberProfiles)] :
        /\ \A m \in 1..(CohortSize - 1) : i[m] <= i[m + 1]
        /\ LET p == [m \in 1..CohortSize |-> MemberProfiles[i[m]]]
           IN  Fed({1, 2}, 1..CohortSize, {<<m, "A">> : m \in 1..CohortSize},
                   SumBags({ProfileBag(m, p[m].q, p[m].c, p[m].w) : m \in 1..CohortSize}))
    /\ exists_ok = TRUE

NextCohort == \E c \in {"A", "B"} : RunCohortAnalysis(c)

SpecCohort == InitCohort /\ [][NextCohort]_vars

\* ------------------------------- tagging while attempts are being ingested
InitPrompt ==
    /\ questions = << >> /\ edges = {} /\ nodes = {}
    /\ pc = "idle" /\ cur = NoCur /\ data = NoData /\ new_version = 0
    /\ ret = NoRet /\ batch = NoBatch /\ runs = 0 /\ calls = 0
    /\ request_timestamps = << >> /\ now = 0 /\ completed = << >> /\ rl = NoRl
    /\ qtext \in [QIds -> Texts]
    /\ sent = {}
    /\ students = {} /\ attempted = EmptyBag /\ includes = {}
    /\ member_of = {} /\ mastery = {} /\ aret = NoAret
    /\ summaries = {} /\ exists_ok = TRUE /\ tq = NoTq

NextPrompt ==
    \/ \E q \in QIds, c \in {NoCohort, "A"} :
            IngestAttempt(1, c, q, NoTagNames, "incorrect", Absent)
    \/ \E q \in QIds : TagQuestion(q, TRUE)
    \/ TagRateLimit
    \/ TagClassifyFails
    \/ TagClassify(RespA)
    \/ TagWrite

SpecPrompt == InitPrompt /\ [][NextPrompt]_vars

\* ------------------------------------------- the limiter, one sequential caller
\* a call of check_rate_limit() on its own
RLCall(d, lag) ==
    /\ Len(completed) < MaxCalls
    /\ now <= MaxTime
    /\ CheckRateLimit(d, lag)
    /\ UNCHANGED <<graphVars, runVars, ret, batch, counters, rl, anVars, tq, sent>>

NextRL == \E d \in Deltas, lag \in Lags : RLCall(d, lag)

SpecRL == Init /\ [][NextRL]_vars

\* ------------------------------------------- the limiter, concurrent callers
Started == Len(completed) + Cardinality({c \in Callers : rl[c].pc # "idle"})

\* current_time = time.time()
RLRead(c, d) ==
    /\ rl[c].pc = "idle"
    /\ Started < MaxCalls
    /\ now <= MaxTime
    /\ now' = now + d
    /\ rl' = [rl EXCEPT ![c] = [pc |-> "evict", current_time |-> now', wake |-> 0]]
    /\ UNCHANGED <<anVars, tq, sent, graphVars, runVars, ret, batch, counters, request_timestamps, completed>>

\* one test of the while condition, and the popleft when it holds
RLEvict(c) ==
    /\ rl[c].pc = "evict"
    /\ IF request_timestamps # << >>
          /\ rl[c].current_time - Head(request_timestamps) > Window
       THEN /\ request_timestamps' = Tail(request_timestamps)
            /\ rl' = rl
       ELSE /\ request_timestamps' = request_timestamps
            /\ rl' = [rl EXCEPT ![c].pc = "test"]
    /\ UNCHANGED <<anVars, tq, sent, graphVars, runVars, ret, batch, counters, now, completed>>

\* the capacity test and the computation of wait_time
RLTest(c) ==
    /\ rl[c].pc = "test"
    /\ IF Len(request_timestamps) >= RATE_LIMIT
       THEN rl' = [rl EXCEPT ![c].pc = "sleep",
                             ![c].wake = rl[c].current_time
                                 + WaitTime(request_timestamps, rl[c].current_time)]
       ELSE rl' = [rl EXCEPT ![c].pc = "append"]
    /\ UNCHANGED <<anVars, tq, sent, graphVars, runVars, ret, batch, counters, limiterVars>>

\* time.sleep(wait_time) returns
RLSleep(c) ==
    /\ rl[c].pc = "sleep"
    /\ now' = IF now < rl[c].wake THEN rl[c].wake ELSE now
    /\ rl' = [rl EXCEPT ![c].pc = "append"]
    /\ UNCHANGED <<anVars, tq, sent, graphVars, runVars, ret, batch, counters, request_timestamps, completed>>

\* request_timestamps.append(time.time())
RLAppend(c) ==
    /\ rl[c].pc = "append"
    /\ request_timestamps' = DequeAppend(request_timestamps, now)
    /\ completed' = Append(completed, now)
    /\ rl' = [rl EXCEPT ![c] = [pc |-> "idle", current_time |-> 0, wake |-> 0]]
    /\ UNCHANGED <<anVars, tq, sent, graphVars, runVars, ret, batch, counters, now>>

NextRLConc ==
    \/ \E c \in Callers, d \in Deltas : RLRead(c, d)
    \/ \E c \in Callers : RLEvict(c)
    \/ \E c \in Callers : RLTest(c)
    \/ \E c \in Callers : RLSleep(c)
    \/ \E c \in Callers : RLAppend(c)

SpecRLConc == Init /\ [][NextRLConc]_vars

\* a thread inside check_rate_limit() is scheduled again, and its sleep ends
RLStep(c) == RLEvict(c) \/ RLTest(c) \/ RLSleep(c) \/ RLAppend(c)

SpecRLFair == Init /\ [][NextRLConc]_vars /\ \A c \in Callers : WF_vars(RLStep(c))

\* ================================================================ claims
AiEdges(q, dim) == {e \in EdgesOf(q, dim) : e.tag_source = "ai_generated"}
ClientEdges(q, dim) == {e \in EdgesOf(q, dim) : e.tag_source = "client"}

\* C1: for every question and dimension the versions carried by the
\* ai_generated edges are exactly 1..n, one edge per version: they start at
\* 1 and have neither gaps nor repeats.
C1_VersionsDense ==
    \A q \in DOMAIN questions, dim \in Dims :
        /\ {e.version : e \in AiEdges(q, dim)} = 1 .. Cardinality(AiEdges(q, dim))
        /\ \A e1, e2 \in AiEdges(q, dim) : e1.version = e2.version => e1 = e2

\* C2: every step of a tag_question run keeps every tag edge that existed
\* before it, with the same properties, also when the classifier names a node
\* the question is already linked to.
C2_EdgesPreserved ==
    [][(pc # "idle" \/ pc' # "idle") => edges \subseteq edges']_vars

\* C2 witness: a run has succeeded and its question holds two parallel edges
\* to one node, the older one still there.
C2_Witness ==
    /\ ret.op = "tag_question" /\ ret.outcome = "tagged"
    /\ \E e1, e2 \in edges :
          /\ e1.q = ret.q /\ e2.q = ret.q /\ e1.dim = e2.dim /\ e1.name = e2.name
          /\ e2.version = ret.version /\ e2.tag_source = "ai_generated"
          /\ e1 # e2

\* C3: when a dimension of the question has a client edge, get_effective_tags
\* returns a client tag for that dimension.
C3_ClientWins ==
    (ret.op = "get_effective_tags" /\ ret.outcome = "ok") =>
        \A dim \in Dims :
            ClientEdges(ret.q, dim) # {} => ret.tags[dim].tag_source = "client"

\* C4: in a dimension without client edge get_effective_tags returns the
\* ai_generated edge with the highest version, and unset when the dimension
\* has no ai_generated edge either.
C4_LatestAiWins ==
    (ret.op = "get_effective_tags" /\ ret.outcome = "ok") =>
        \A dim \in Dims :
            ClientEdges(ret.q, dim) = {} =>
                IF AiEdges(ret.q, dim) = {} THEN ret.tags[dim] = NoTag
                ELSE \E e \in AiEdges(ret.q, dim) :
                        /\ ret.tags[dim] = TagOf(e)
                        /\ \A x \in AiEdges(ret.q, dim) : x.version <= e.version

\* C5: tag_question(q, force_retag=false) on a question that is tagged and not
\* flagged returns already_tagged and changes nothing: no edge, no status, no
\* flag, no classifier call, no rate-limiter slot.
C5_AlreadyTaggedNoOp ==
    [][\A q \in QIds :
          (/\ TagQuestion(q, FALSE)
           /\ q \in DOMAIN questions
           /\ questions[q].tagging_status = "tagged"
           /\ ~questions[q].needs_ai_tagging)
          => /\ ret'.outcome = "already_tagged" /\ ret'.success /\ ret'.q = q
             /\ pc' = "idle"
             /\ UNCHANGED <<graphVars, counters, limiterVars>>]_vars

\* C5 witness: the short-circuit has been taken on a question that carries
\* ai_generated edges.
C5_Witness ==
    /\ ret.op = "tag_question" /\ ret.outcome = "already_tagged"
    /\ questions[ret.q].tagging_status = "tagged"
    /\ \E dim \in Dims : AiEdges(ret.q, dim) # {}

\* the answers the validation policy rejects
Degenerate(d) ==
    /\ d.kind = "dict"
    /\ \/ d.has # AllKeys
       \/ d.topic_confidence < 10
       \/ d.parent_topic = "Uncategorized"

\* C6: an answer that omits fields, carries the fallback sentinel values or
\* has topic_confidence < 0.1 ends the run with tagging_status = failed and
\* without any new edge.
C6_DegenerateRejected ==
    [][(pc = "write" /\ Degenerate(data)) =>
          /\ questions'[cur.q].tagging_status = "failed"
          /\ edges' = edges]_vars

\* C7: when the classifier call fails the run sets tagging_status = failed,
\* returns a failure naming the question, creates no edge and leaves
\* needs_ai_tagging as it was.
C7_ClassifierFailure ==
    [][(pc = "classify" /\ pc' = "idle") =>
          /\ questions'[cur.q].tagging_status = "failed"
          /\ questions'[cur.q].needs_ai_tagging = questions[cur.q].needs_ai_tagging
          /\ ret'.op = "tag_question" /\ ret'.outcome = "failed"
          /\ ~ret'.success /\ ret'.q = cur.q
          /\ edges' = edges]_vars

\* C7 witness: a forced run on a tagged question failed in the classifier.
C7_Witness ==
    /\ ret.op = "tag_question" /\ ret.outcome = "failed"
    /\ questions[ret.q].tagging_status = "failed"
    /\ ~questions[ret.q].needs_ai_tagging
    /\ calls > 0

\* C8: with one sequential caller, any RATE_LIMIT + 1 consecutive recorded
\* calls span more than RATE_WINDOW, so no interval of that length holds
\* more than RATE_LIMIT of them.
C8_Quota ==
    \A i \in 1 .. Len(completed) - RATE_LIMIT :
        completed[i + RATE_LIMIT] - completed[i] > Window

\* C8 witness: a call found the window full, waited and was recorded.
C8_Witness ==
    /\ Len(completed) > RATE_LIMIT
    /\ completed[RATE_LIMIT + 1] - completed[1] = Window + Buffer

RECURSIVE LastN(_, _)
LastN(sq, n) == IF Len(sq) <= n THEN sq ELSE LastN(Tail(sq), n)

\* C9: with concurrent callers, in every interleaving at most RATE_LIMIT
\* calls are recorded within any RATE_WINDOW, and between calls the window
\* holds only timestamps of the most recent recorded calls, in order.
C9_ConcurrentQuota ==
    /\ \A i \in 1 .. Len(completed) - RATE_LIMIT :
          completed[i + RATE_LIMIT] - completed[i] > Window
    /\ (\A c \in Callers : rl[c].pc = "idle") =>
          \E k \in 0 .. RATE_LIMIT :
              request_timestamps = LastN(completed, k)

\* C10: when batch_tag_questions ends, tag_question was called on every
\* selected question, processed = success + failed and errors has one entry
\* per failed question.
C10_BatchIsolates ==
    batch.state \in {"returned", "aborted"} =>
        /\ batch.called = batch.selected
        /\ batch.processed = batch.success + batch.failed
        /\ Len(batch.errors) = batch.failed

\* C11: over any sequence of tag_question, batch_tag_questions and
\* create_question_if_not_exists calls the tagging_status of a question
\* changes only by the steps untagged -> pending, pending -> tagged,
\* pending -> failed and tagged -> pending, the last only in a run with
\* force_retag set.
C11_StatusSteps ==
    [][\A q \in DOMAIN questions :
          LET a == questions[q].tagging_status
              b == questions'[q].tagging_status
          IN  a # b =>
                \/ a = "untagged" /\ b = "pending"
                \/ a = "pending" /\ b \in {"tagged", "failed"}
                \/ a = "tagged" /\ b = "pending" /\ cur'.q = q /\ cur'.force]_vars

\* C12: when a tag_question run that saved 'pending' ends, by returning or by
\* an exception in the version loops or the edge writes, the question is
\* 'tagged' or 'failed', never 'pending'; and it is 'tagged' only if the three
\* edges of the run exist.
C12_RunEndsResolved ==
    [][(pc \in {"classify", "write"} /\ pc' = "idle") =>
          /\ questions'[cur.q].tagging_status \in {"tagged", "failed"}
          /\ questions'[cur.q].tagging_status = "tagged" =>
                \A dim \in Dims : NewEdge(cur.q, data, dim, new_version) \in edges']_vars

\* the highest version on the ai_generated edges of q, all dimensions together
HighestAiVersion(q) == MaxOf({e.version : e \in UNION {AiEdges(q, dim) : dim \in Dims}})

\* C20: in a successful tag_question run the three edges carry one version,
\* 1 + the highest version on the question's existing ai_generated edges over
\* the three dimensions (1 when there is none), and the run returns it.
C20_RunVersion ==
    [][(pc = "write" /\ pc' = "idle" /\ ret'.outcome = "tagged") =>
          LET v == HighestAiVersion(cur.q) + 1
          IN  /\ ret'.version = v
              /\ \A dim \in Dims : NewEdge(cur.q, data, dim, v) \in edges']_vars

\* C13: the request handed to the classifier is a function of the question's
\* text alone: two calls made for questions with the same text send the same
\* request, whatever the attempts, students, cohorts and exams in the graph
\* at the time of each call.
C13_RequestFromTextOnly ==
    \A a, b \in sent : a.text = b.text => a.request = b.request

\* two requests were sent for one text from graphs with different attempts
C13_Witness ==
    \E a, b \in sent : a.text = b.text /\ a.graph[2] # b.graph[2]

OlsSlope(ys) ==
    LET n == Len(ys)
        D == ProdTo([i \in 1..n |-> ys[i][2]], n)
        Y == [i \in 1..n |-> ys[i][1] * (D \div ys[i][2])]
        sx == SumTo([i \in 1..n |-> i - 1], n)
        sy == SumTo(Y, n)
        sxy == SumTo([i \in 1..n |-> (n * (i - 1) - sx) * (n * Y[i] - sy)], n)
        sxx == SumTo([i \in 1..n |-> (n * (i - 1) - sx) * (n * (i - 1) - sx)], n)
    IN  IF n < 2 THEN Zero ELSE Frac(sxy, D * sxx)

ReturnedAccuracies == [i \in 1..Len(aret.exams) |-> aret.exams[i].accuracy]

\* C15: run_student_analysis labels the trend Improving exactly when the
\* least-squares slope of the per-exam accuracies against 0..n-1 (exams in
\* ascending exam id) is above 0.01, Declining exactly when it is below
\* -0.01, Volatile otherwise; the slope is 0.0 for fewer than two exams;
\* [0.4, 0.8] is Improving, [0.8, 0.4] Declining, [0.5, 0.5] Volatile.
C15_TrendLabel ==
    aret.op = "run_student_analysis" =>
        LET ys == ReturnedAccuracies
            slope == OlsSlope(ys)
        IN  /\ \A i, j \in 1..Len(aret.exams) :
                  i < j => aret.exams[i].exam_id < aret.exams[j].exam_id
            /\ {aret.exams[i].exam_id : i \in 1..Len(aret.exams)} = ExamsOf(aret.student_id)
            /\ aret.trend_slope = slope
            /\ aret.trend = "Improving" <=> Less(<<1, 100>>, slope)
            /\ aret.trend = "Declining" <=> Less(slope, <<-1, 100>>)
            /\ aret.trend = "Volatile" <=>
                  ~Less(<<1, 100>>, slope) /\ ~Less(slope, <<-1, 100>>)
            /\ Len(ys) < 2 => aret.trend_slope = Zero
            /\ ys = <<(<<2, 5>>), (<<4, 5>>)>> => aret.trend = "Improving"
            /\ ys = <<(<<4, 5>>), (<<2, 5>>)>> => aret.trend = "Declining"
            /\ ys = <<(<<1, 2>>), (<<1, 2>>)>> => aret.trend = "Volatile"

\* an analysis over three exams with a rising trend that is not monotone
C15_Witness ==
    /\ aret.op = "run_student_analysis"
    /\ ReturnedAccuracies = <<(<<2, 5>>), (<<0, 1>>), (<<4, 5>>)>>
    /\ aret.trend = "Improving"

\* the attempts of member m, with an outcome among outcomes, on questions
\* linked to the concept
OnConcept(m, concept, outcomes) ==
    CountWhere(LAMBDA a : /\ a.s = m /\ a.outcome \in outcomes
                          /\ \E e \in edges : e.q = a.q /\ e.dim = "topic" /\ e.name = concept)

\* members of cohort c with an attempt on a question of the concept, and the
\* ones among them whose accuracy on the concept is below 0.5
Attempting(c, concept) ==
    {m \in Members(c) : OnConcept(m, concept, Outcomes) > 0}
Failing(c, concept) ==
    {m \in Attempting(c, concept) :
        2 * OnConcept(m, concept, {"correct"}) < OnConcept(m, concept, Outcomes)}
Concepts == {n.name : n \in {x \in nodes : x.dim = "topic"}}

Buckets(m) ==
    {b \in {"top_performers", "stable", "at_risk"} : m \in aret.leaderboard[b]}

\* C17: in the leaderboard of run_cohort_analysis a member with fewer than
\* five attempts is in no bucket, and a member with at least five is in
\* exactly one: top_performers above 0.8, stable from 0.5 to 0.8, at_risk
\* below 0.5.
C17_Leaderboard ==
    (aret.op = "run_cohort_analysis" /\ aret.cohort_size > 0) =>
        \A m \in Members(aret.cohort) :
            IF Total(m) < 5 THEN Buckets(m) = {}
            ELSE Buckets(m) =
                    {IF 5 * CountWhere(LAMBDA a : a.s = m /\ a.outcome = "correct") > 4 * Total(m)
                     THEN "top_performers"
                     ELSE IF 2 * CountWhere(LAMBDA a : a.s = m /\ a.outcome = "correct") >= Total(m)
                     THEN "stable" ELSE "at_risk"}

\* the mean of the times present in a bag of attempts, rounded; None without any
MeanTime(B) ==
    LET timed == {a \in BagToSet(B) : a.time_spent_seconds # Absent}
        n == SumOver(timed, B)
    IN  IF n = 0 THEN None
        ELSE Some(Round2(Frac(SumOver(timed,
                 [a \in timed |-> B[a] * a.time_spent_seconds]), n)))

\* C18: an attempt made without time_spent_seconds is stored with the time
\* absent, never 0, by the ingestion view and by feed_data; and
\* get_student_performance_summary reports as avg_time_seconds the mean over
\* the attempts whose time is present, None when there is none.
C18_TimeAbsent ==
    /\ [][(ret'.op \in {"ingest_attempt", "feed_data"} /\ ret'.time_spent = Absent) =>
            /\ attempted'[Attempt(ret'.student_id, ret'.q, ret'.outcome, Absent)] > 0
            /\ \A a \in BagToSet(attempted') :
                  a.time_spent_seconds = 0 =>
                      a \in BagToSet(attempted) /\ attempted'[a] = attempted[a]]_vars
    /\ [](aret.op = "get_student_performance_summary" /\ aret.student_id \in students
             => aret.avg_time_seconds = MeanTime(aret.attempts))

\* C19: after run_student_analysis(s) the mastery edges of s are exactly the
\* ones a rebuild from the current attempts and tag edges gives: no edge and
\* no score of an earlier run is left.
C19_MasteryRebuilt ==
    [][RunStudentAnalysis(1) => {m \in mastery' : m.s = 1} = WriteBack(1)]_vars

\* ------------------------------------------------- update_student_summary
\* longitudinal._slope_from_points(points), points the y values and x = 0..n-1:
\* sum((x - x_mean)(y - y_mean)) / sum((x - x_mean)^2), numerator and
\* denominator both multiplied by n^2
SlopeOfValues(ys) ==
    LET n == Len(ys)
        pts == [i \in 1..n |-> <<i - 1, ys[i]>>]
        Y == Scaled(pts)
        sx == SumTo([i \in 1..n |-> i - 1], n)
        sy == SumTo(Y, n)
        num == SumTo([i \in 1..n |-> (n * (i - 1) - sx) * (n * Y[i] - sy)], n)
        den == SumTo([i \in 1..n |-> (n * (i - 1) - sx) * (n * (i - 1) - sx)], n)
    IN  IF n < 2 THEN Zero
        ELSE IF den # 0 THEN Frac(num, CommonDen(pts) * den) ELSE Zero

SummariesOf(s) == {m \in summaries : m.student_id = s}

\* update_student_summary(student_id); last_updated counts the saves
UpdateStudentSummary(s) ==
    /\ Idle
    /\ \A m \in SummariesOf(s) : m.last_updated < MaxUpdates
    /\ IF s \notin students
       THEN /\ aret' = [StudentNotFound(s) EXCEPT !.op = "update_student_summary"]
            /\ summaries' = summaries
       ELSE \E pick \in Picks(s) :
            LET metrics == Metrics(s, pick, exists_ok)
                per_exam == [i \in 1..Len(metrics.per_exam_accuracy) |->
                                metrics.per_exam_accuracy[i][2]]
                slope == SlopeOfValues(per_exam)
                stamp == IF SummariesOf(s) = {} THEN 1
                         ELSE (CHOOSE m \in SummariesOf(s) : TRUE).last_updated + 1
            IN  /\ summaries' = (summaries \ SummariesOf(s)) \cup
                        {[student_id |-> s,
                          avg_accuracy |-> metrics.avg_accuracy,
                          accuracy_slope |-> slope,
                          repeated_mistakes |-> metrics.repeated_mistakes,
                          attempt_density |-> metrics.attempt_density,
                          last_updated |-> stamp]}
                /\ aret' = [metrics EXCEPT !.op = "update_student_summary"]
    /\ UNCHANGED <<graphVars, runVars, ret, batch, counters, limiterVars, rl,
                   qtext, sent, exists_ok, tq, students, attempted, includes, member_of, mastery>>

\* ---- one student over two exams, on a server of either kind
SummaryProfiles == {<<0, 0>>, <<1, 0>>, <<0, 1>>, <<1, 1>>, <<2, 3>>}

InitSummary ==
    /\ \E p \in [{1, 2} -> SummaryProfiles] :
          Fed({1, 2}, {1, 2}, {},
              SumBags({ProfileBag(1, q, p[q][1], p[q][2]) : q \in {1, 2}}))
    /\ exists_ok \in BOOLEAN

NextSummary == \E s \in {1, 2} \cup UnknownStudents : UpdateStudentSummary(s)

SpecSummary == InitSummary /\ [][NextSummary]_vars

\* ---- one student on two questions of one concept and skill, the first
\* tagged by one or by two tag_question runs, the second by the client
ProfileBagSkipped(s, q, c, w, k) ==
    ProfileBag(s, q, c, w) (+) SetToBag({Attempt(s, q, "skipped", t) : t \in 1..k})

WeakProfiles ==
    {<<0, 0, 0>>, <<0, 0, 1>>, <<0, 1, 0>>, <<0, 2, 0>>, <<0, 3, 0>>, <<0, 4, 0>>,
     <<3, 4, 0>>, <<4, 4, 0>>, <<4, 4, 1>>}
SecondProfiles == {<<0, 0, 0>>, <<0, 0, 1>>, <<0, 1, 0>>, <<2, 0, 0>>}

InitWeak ==
    \E tag_runs \in {1, 2}, p \in WeakProfiles, r \in SecondProfiles :
        /\ questions = [q \in {1, 2} |-> [tagging_status |-> "tagged", needs_ai_tagging |-> FALSE]]
        /\ edges = LinkQuestionTags({}, 2, CHOOSE t \in ClientTags : TRUE)
                      \cup {NewEdge(1, RespA, dim, v) : dim \in Dims, v \in 1..tag_runs}
        /\ nodes = {[dim |-> e.dim, name |-> e.name] : e \in edges}
        /\ pc = "idle" /\ cur = NoCur /\ data = NoData /\ new_version = 0
        /\ ret = NoRet /\ batch = NoBatch /\ runs = 0 /\ calls = 0
        /\ request_timestamps = << >> /\ now = 0 /\ completed = << >> /\ rl = NoRl
        /\ qtext = [q \in QIds |-> "t1"]
        /\ sent = {}
        /\ students = {1}
        /\ attempted = ProfileBagSkipped(1, 1, p[1], p[2], p[3])
                          (+) ProfileBagSkipped(1, 2, r[1], r[2], r[3])
        /\ includes = {<<ExamOf(q), q>> : q \in {1, 2}}
        /\ member_of = {}
        /\ mastery = {}
        /\ aret = NoAret
        /\ summaries = {} /\ exists_ok = TRUE /\ tq = NoTq

NextWeak ==
    \/ \E query_ok \in BOOLEAN : AnalyzeStudent(1, query_ok)
    \/ RunStudentAnalysis(1)

SpecWeak == InitWeak /\ [][NextWeak]_vars

\* ---- the writers of tag edges, with answers of any confidence
NextContract ==
    \/ \E q \in QIds, t \in ClientTags : CreateQuestionTagged(q, t)
    \/ \E q \in QIds : CreateQuestionUntagged(q)
    \/ \E q \in QIds, force \in BOOLEAN : TagQuestion(q, force)
    \/ TagRateLimit
    \/ \E resp \in {RespA, RespOver, RespNegative} : TagClassify(resp)
    \/ TagWrite

SpecContract == Init /\ [][NextContract]_vars

\* the closed set of tag sources; the machine source under the name of the
\* set and under the name tag_question writes
TagSources == {"client", "llm", "rule", "hybrid"}
MachineGenerated == {"llm", "ai_generated"}

\* C21: every tag edge in the graph, whichever writer made it, has a
\* confidence within [0, 1], a version of at least 1, a tag_source of the
\* closed set, a model identifier exactly when it is machine-generated, and
\* confidence 1.0 when it is a client edge.
C21_EdgeContract ==
    \A e \in edges :
        /\ 0 <= e.confidence /\ e.confidence <= 100
        /\ e.version >= 1
        /\ e.tag_source \in TagSources
        /\ (e.model_id # NoModelId) <=> (e.tag_source \in MachineGenerated)
        /\ e.tag_source = "client" => e.confidence = ClientConf

\* the attempts of student s, with an outcome among outcomes, on questions
\* tagged with the name in the dimension
AttemptsOn(s, dim, name, outcomes) ==
    CountWhere(LAMBDA a : /\ a.s = s /\ a.outcome \in outcomes
                          /\ \E e \in edges : e.q = a.q /\ e.dim = dim /\ e.name = name)
NamesOf(dim) == {e.name : e \in {x \in edges : x.dim = dim}}
MasteryOf(s, kind, name) == {m \in mastery : m.s = s /\ m.kind = kind /\ m.name = name}

\* C22: after run_student_analysis(s) on attempts that did not change, s has
\* a concept mastery edge to a concept exactly when s has more than 3
\* incorrect attempts on it and correct/total below 0.5, skipped attempts
\* counting in the total only; the edge has mastery_score = correct/total and
\* risk_level High, and there is one edge at most per student and concept.
C22_ConceptMastery ==
    aret.op = "run_student_analysis" =>
        \A c \in NamesOf("topic") :
            LET s == aret.student_id
                incorrect == AttemptsOn(s, "topic", c, {"incorrect"})
                correct == AttemptsOn(s, "topic", c, {"correct"})
                total == AttemptsOn(s, "topic", c, Outcomes)
            IN  /\ Cardinality(MasteryOf(s, "concept", c)) <= 1
                /\ (MasteryOf(s, "concept", c) # {}) <=>
                        (incorrect > 3 /\ 2 * correct < total)
                /\ \A m \in MasteryOf(s, "concept", c) :
                        m.mastery_score = Frac(correct, total) /\ m.risk_level = "High"

\* C23: after run_student_analysis(s) on attempts that did not change, s has
\* a skill mastery edge to a skill exactly when s attempted the skill and
\* correct/total on it is below 0.6; its risk_level is High below 0.5 and
\* Medium from 0.5; on every mastery edge risk_level is High if and only if
\* mastery_score is below 0.5.
C23_SkillMastery ==
    aret.op = "run_student_analysis" =>
        /\ \A k \in NamesOf("skill") :
              LET s == aret.student_id
                  correct == AttemptsOn(s, "skill", k, {"correct"})
                  total == AttemptsOn(s, "skill", k, Outcomes)
              IN  /\ (MasteryOf(s, "skill", k) # {}) <=> (total > 0 /\ 5 * correct < 3 * total)
                  /\ \A m \in MasteryOf(s, "skill", k) :
                        /\ m.mastery_score = Frac(correct, total)
                        /\ m.risk_level = IF 2 * correct < total THEN "High" ELSE "Medium"
        /\ \A m \in mastery : m.risk_level = "High" <=> Less(m.mastery_score, <<1, 2>>)

\* C24: repeated_mistakes of analyze_student is the number of concepts on
\* which the student has more than one attempt with outcome incorrect;
\* correct and skipped attempts add nothing.
C24_RepeatedMistakes ==
    (aret.op = "analyze_student" /\ aret.error = "") =>
        aret.repeated_mistakes =
            Cardinality({c \in NamesOf("topic") :
                AttemptsOn(aret.student_id, "topic", c, {"incorrect"}) > 1})

\* C25: a tag_question run persists tagging_status = pending before it
\* enters check_rate_limit(), calls the classifier only after
\* check_rate_limit() returned, and calls it once; every classifier call has
\* consumed exactly one slot of the limiter, and a run that ends in not-found
\* or already-tagged consumes none.
C25_StepOrder ==
    /\ [](pc \in {"rate_limit", "classify"} =>
             questions[cur.q].tagging_status = "pending")
    /\ [](Len(completed) = calls + (IF pc = "classify" THEN 1 ELSE 0))
    /\ [][/\ pc' = "rate_limit" /\ pc # "rate_limit" => pc = "idle" /\ UNCHANGED <<calls, completed>>
          /\ pc' = "classify" /\ pc # "classify" =>
                pc = "rate_limit" /\ Len(completed') = Len(completed) + 1 /\ calls' = calls
          /\ calls' # calls =>
                /\ calls' = calls + 1 /\ pc = "classify" /\ pc' # "classify"
                /\ UNCHANGED <<request_timestamps, completed>>
          /\ (pc = "idle" /\ pc' = "idle") =>
                UNCHANGED <<request_timestamps, completed, calls>>]_vars

\* two runs called the classifier and a third ended in already-tagged
C25_Witness ==
    /\ calls = 2 /\ Len(completed) = 2
    /\ ret.op = "tag_question" /\ ret.outcome = "already_tagged"

\* the calls recorded in the 60 seconds before the instant t
RecordedBefore(t) ==
    Cardinality({i \in 1..Len(completed) : completed[i] <= t /\ t - completed[i] <= Window})

\* C26: every call of check_rate_limit() returns; it does not wait when
\* fewer than RATE_LIMIT calls were recorded in the RATE_WINDOW before it
\* read the clock, otherwise it waits once, for no longer than the window
\* plus the buffer; and it records exactly one timestamp.
C26_CallReturns ==
    /\ \A c \in Callers : (rl[c].pc # "idle") ~> (rl[c].pc = "idle")
    /\ [][\A c \in Callers :
            /\ (rl[c].pc = "test" /\ rl'[c].pc = "append") =>
                    RecordedBefore(rl[c].current_time) < RATE_LIMIT
            /\ (rl[c].pc = "test" /\ rl'[c].pc = "sleep") =>
                    /\ RecordedBefore(rl[c].current_time) >= RATE_LIMIT
                    /\ rl'[c].wake - rl[c].current_time > 0
                    /\ rl'[c].wake - rl[c].current_time <= Window + Buffer
            /\ (rl[c].pc = "sleep" /\ rl'[c] # rl[c]) => rl'[c].pc = "append"
            /\ (rl[c].pc # "idle" /\ rl'[c].pc = "idle") =>
                    rl[c].pc = "append" /\ Len(completed') = Len(completed) + 1
            /\ (rl[c].pc # "append" /\ rl'[c].pc = rl[c].pc /\ \A o \in Callers : rl[o].pc # "append") =>
                    completed' = completed]_vars

\* the four values of a StudentSummary
Snapshot(m) ==
    <<m.avg_accuracy, m.accuracy_slope, m.repeated_mistakes, m.attempt_density>>

\* C27: after update_student_summary(s) for an existing student there is
\* exactly one StudentSummary for s, whose four values are the ones of the
\* metrics the call returned (the slope being the one of its per-exam
\* accuracies); and a call with unchanged attempts leaves the four values of
\* an existing summary as they were.
C27_SummaryIdempotent ==
    /\ [](\A s \in students : Cardinality(SummariesOf(s)) <= 1)
    /\ []((aret.op = "update_student_summary" /\ aret.error = "") =>
            /\ Cardinality(SummariesOf(aret.student_id)) = 1
            /\ \A m \in SummariesOf(aret.student_id) :
                  Snapshot(m) =
                      <<aret.avg_accuracy,
                        OlsSlope([i \in 1..Len(aret.per_exam_accuracy) |->
                                      aret.per_exam_accuracy[i][2]]),
                        aret.repeated_mistakes, aret.attempt_density>>)
    /\ [][\A m \in summaries, n \in summaries' :
            (m.student_id = n.student_id /\ attempted' = attempted) =>
                Snapshot(n) = Snapshot(m)]_vars

\* ------------------------------------------- concurrent tag_question runs
\* Two callers run tag_question(q, force_retag=True); each holds its own
\* question object, answer and new_version, and the graph is shared. A step
\* is one stretch of the function between two round trips to the server or
\* the classifier.

\* steps 1 to 3 of one caller: fetch, the already-tagged test (passed under
\* force_retag), 'pending' saved
TqEnter(c, q) ==
    /\ tq[c].pc \in {"idle", "tagged", "failed", "raised"}
    /\ q \in DOMAIN questions
    /\ ~AlreadyTagged(q, TRUE)
    /\ runs < MaxRuns
    /\ LET mine == [q |-> q, force |-> TRUE, tagging_status |-> "pending",
                    needs_ai_tagging |-> questions[q].needs_ai_tagging]
       IN  /\ questions' = Save(questions, mine)
           /\ tq' = [tq EXCEPT ![c] = [pc |-> "rate_limit", new_version |-> 0,
                                       data |-> NoData, cur |-> mine]]
    /\ runs' = runs + 1
    /\ UNCHANGED <<edges, nodes, runVars, ret, batch, calls, limiterVars, rl, anVars, sent>>

\* step 4 of one caller
TqRateLimit(c) ==
    /\ tq[c].pc = "rate_limit"
    /\ CheckRateLimit(0, 0)
    /\ tq' = [tq EXCEPT ![c].pc = "classify"]
    /\ UNCHANGED <<graphVars, runVars, ret, batch, counters, rl, anVars, sent>>

\* step 5 of one caller, the call raised or its text is not JSON
TqClassifyFails(c) ==
    /\ tq[c].pc = "classify"
    /\ calls' = calls + 1
    /\ questions' = Save(questions, [tq[c].cur EXCEPT !.tagging_status = "failed"])
    /\ sent' = sent \cup {Sent(tq[c].cur.q)}
    /\ tq' = [tq EXCEPT ![c].pc = "failed"]
    /\ UNCHANGED <<edges, nodes, runVars, ret, batch, runs, limiterVars, rl, anVars>>

\* step 5 of one caller, json.loads returned, and the three version loops
\* over the edges the graph holds at that moment
TqClassify(c, resp) ==
    /\ tq[c].pc = "classify"
    /\ calls' = calls + 1
    /\ sent' = sent \cup {Sent(tq[c].cur.q)}
    /\ \E S \in Seen({e \in edges : e.q = tq[c].cur.q}) :
           tq' = [tq EXCEPT ![c].pc = "write", ![c].data = resp,
                            ![c].new_version = CurrentMaxVersion(S) + 1]
    /\ UNCHANGED <<graphVars, runVars, ret, batch, runs, limiterVars, rl, anVars>>

\* steps 6 and 7 of one caller
TqWrite(c) ==
    LET mine == tq[c] IN
    /\ mine.pc = "write"
    /\ edges' = ConnectAll(edges, {NewEdge(mine.cur.q, mine.data, dim, mine.new_version) :
                                       dim \in Written(mine.data)})
    /\ nodes' = nodes \cup {[dim |-> dim, name |-> Get(mine.data, dim, DefaultName(dim))] :
                                dim \in Resolved(mine.data)}
    /\ IF Written(mine.data) = Dims
       THEN /\ questions' = Save(questions, [mine.cur EXCEPT !.needs_ai_tagging = FALSE,
                                                             !.tagging_status = "tagged"])
            /\ tq' = [tq EXCEPT ![c].pc = "tagged"]
       ELSE /\ questions' = questions
            /\ tq' = [tq EXCEPT ![c].pc = "raised"]
    /\ UNCHANGED <<runVars, ret, batch, counters, limiterVars, rl, anVars, sent>>

\* the answers of the classifier the two callers receive
TqAnswers == {RespA, RespEmpty}

NextTagConc ==
    \/ CreateQuestionUntagged(1)
    \/ \E c \in Callers : TqEnter(c, 1)
    \/ \E c \in Callers : TqRateLimit(c)
    \/ \E c \in Callers : TqClassifyFails(c)
    \/ \E c \in Callers, resp \in TqAnswers : TqClassify(c, resp)
    \/ \E c \in Callers : TqWrite(c)

SpecTagConc == Init /\ [][NextTagConc]_vars

\* C28: whatever the interleaving of two tag_question(q, force_retag=True)
\* runs on one question, two runs that wrote their edges wrote different
\* version numbers, and no dimension of the question holds two
\* machine-generated edges with the same version.
C28_DistinctVersions ==
    /\ \A c1, c2 \in Callers :
           (c1 # c2 /\ tq[c1].pc = "tagged" /\ tq[c2].pc = "tagged"
                    /\ tq[c1].cur.q = tq[c2].cur.q) =>
               tq[c1].new_version # tq[c2].new_version
    /\ \A q \in DOMAIN questions, dim \in Dims :
           \A e1, e2 \in AiEdges(q, dim) : e1.version = e2.version => e1 = e2

\* ------------------------------------------------------------ repair_data
\* create_question_if_not_exists with the three tag names given, when a
\* server call of _link_question_tags raises before its first connect: a new
\* question stays as its first save left it, an existing one is untouched
CreateQuestionLinkRaises(q) ==
    /\ Idle
    /\ questions' = IF q \in DOMAIN questions THEN questions
                    ELSE (q :> [tagging_status |-> "untagged", needs_ai_tagging |-> FALSE])
                             @@ questions
    /\ ret' = Ret("create_question_if_not_exists", q, "raised", FALSE, 0)
    /\ batch' = NoBatch
    /\ UNCHANGED <<edges, nodes, runVars, counters, limiterVars, rl, anVars, tq, sent>>

\* --limit: 0 stands for the option left out
RepairLimits == {0, 1}

\* the questions of the scan that have text and lack a tag in some dimension
NeedsFlagging(scanned) ==
    {q \in scanned : qtext[q] # "" /\ \E dim \in Dims : EdgesOf(q, dim) = {}}

\* Command.handle of repair_data: the scan, the flags it saves, and with
\* --run-ai the batch it starts over the flagged questions
RepairData(dry_run, run_ai, limit) ==
    /\ Idle
    /\ \E scanned \in SUBSET DOMAIN questions :
          /\ Cardinality(scanned) =
                 IF limit = 0 THEN Cardinality(DOMAIN questions)
                 ELSE MinOf(limit, Cardinality(DOMAIN questions))
          /\ LET already == {q \in NeedsFlagging(scanned) : questions[q].needs_ai_tagging}
                 flagged == NeedsFlagging(scanned) \ already
                 saved == IF dry_run THEN {} ELSE flagged
                 total_to_tag == Cardinality(flagged) + Cardinality(already)
                 after == [q \in DOMAIN questions |->
                              IF q \in saved
                              THEN [tagging_status |-> "untagged", needs_ai_tagging |-> TRUE]
                              ELSE questions[q]]
                 queue == {q \in DOMAIN questions : after[q].needs_ai_tagging}
             IN  /\ questions' = IF saved = {} THEN questions ELSE after
                 /\ IF run_ai /\ ~dry_run /\ total_to_tag > 0
                    THEN /\ \E sel \in SUBSET queue :
                              /\ Cardinality(sel) = MinOf(total_to_tag, Cardinality(queue))
                              /\ batch' = [NoBatch EXCEPT !.state = "running",
                                                          !.selected = sel, !.todo = sel]
                         /\ ret' = NoRet
                    ELSE /\ batch' = NoBatch
                         /\ ret' = Ret("repair_data", 0,
                                       IF saved = {} THEN "scanned" ELSE "flagged", TRUE,
                                       Cardinality(flagged))
    /\ UNCHANGED <<edges, nodes, runVars, counters, limiterVars, rl, anVars, tq, sent>>

\* the answers of the classifier in the flag specification
FlagAnswers == {RespA, RespBadSkillConf}

NextFlags ==
    \/ \E q \in QIds, t \in ClientTags : CreateQuestionTagged(q, t)
    \/ \E q \in QIds : CreateQuestionUntagged(q)
    \/ \E q \in QIds : CreateQuestionLinkRaises(q)
    \/ \E q \in QIds, force \in BOOLEAN : TagQuestion(q, force)
    \/ TagRateLimit
    \/ TagClassifyFails
    \/ \E resp \in FlagAnswers : TagClassify(resp)
    \/ TagWrite
    \/ \E limit \in Limits : BatchStart(limit)
    \/ BatchNext
    \/ BatchReturn
    \/ \E dry_run \in BOOLEAN, run_ai \in BOOLEAN, limit \in RepairLimits :
           RepairData(dry_run, run_ai, limit)
    \/ \E c \in {"a"} : \/ TqEnter(c, 1)
                        \/ TqRateLimit(c)
                        \/ TqClassifyFails(c)
                        \/ \E resp \in FlagAnswers : TqClassify(c, resp)
                        \/ TqWrite(c)

SpecFlags == Init /\ [][NextFlags]_vars

\* C29: in every state reached through tag_question, batch_tag_questions,
\* create_question_if_not_exists and repair_data, a question whose
\* tagging_status is 'tagged' has needs_ai_tagging false, and a question
\* flagged by repair_data or by ingestion (needs_ai_tagging true) has a
\* tagging_status other than 'tagged'.
C29_FlagAndStatus ==
    /\ \A q \in DOMAIN questions :
           questions[q].tagging_status = "tagged" => ~questions[q].needs_ai_tagging
    /\ \A q \in Flagged : questions[q].tagging_status \in {"untagged", "pending", "failed"}

\* repair_data has just flagged a question while another one is tagged
C29_Witness ==
    /\ ret.op = "repair_data" /\ ret.outcome = "flagged"
    /\ \E q \in Flagged : questions[q].tagging_status = "untagged" /\ EdgesOf(q, "topic") = {}
    /\ \E q \in DOMAIN questions : questions[q].tagging_status = "tagged"
                                   /\ AiEdges(q, "topic") # {}

\* ------------------------------------------------- batches over the queue
\* Ingestion flags questions and batch_tag_questions is called again and
\* again. The classifier fails, answers well, or answers with a confidence
\* that is no number.
RetryAnswers == {RespA, RespBadSkillConf}

\* the limit that covers every flagged question
CoveringLimit == Cardinality(QIds)

NextRetry ==
    \/ \E q \in QIds : CreateQuestionUntagged(q)
    \/ \E limit \in Limits : BatchStart(limit)
    \/ BatchNext
    \/ TagRateLimit
    \/ TagClassifyFails
    \/ \E resp \in RetryAnswers : TagClassify(resp)
    \/ TagWrite
    \/ BatchReturn

\* The loop of a batch and the steps of a run follow one another without
\* waiting for anything but the classifier, whose call returns or raises
\* (weak fairness of each step). A batch with a covering limit is started
\* again and again and the classifier answers well again and again: these two
\* are what the retry argument assumes of the callers and of the service
\* (strong fairness, the steps being enabled on and off).
SpecRetry ==
    /\ Init
    /\ [][NextRetry]_vars
    /\ WF_vars(BatchNext)
    /\ WF_vars(TagRateLimit)
    /\ WF_vars(TagClassifyFails \/ \E resp \in RetryAnswers : TagClassify(resp))
    /\ WF_vars(TagWrite)
    /\ WF_vars(BatchReturn)
    /\ SF_vars(BatchStart(CoveringLimit))
    /\ SF_vars(TagClassify(RespA))

IsTagged(q) ==
    /\ q \in DOMAIN questions
    /\ questions[q].tagging_status = "tagged"
    /\ ~questions[q].needs_ai_tagging

FailedAndFlagged(q) ==
    /\ q \in DOMAIN questions
    /\ questions[q].tagging_status = "failed"
    /\ questions[q].needs_ai_tagging

====
